---- MODULE Spec2Model ----
(***************************************************************************)
(* cameradisplay (src/src/main.rs): a camera viewer whose main loop polls  *)
(* window events, steers the camera's gamma and brightness controls        *)
(* through two ControlController proxies, and shows each decoded frame.    *)
(*                                                                         *)
(* An Option<T> of the source is a sequence of length at most one:         *)
(* <<>> is None and <<x>> is Some(x).                                      *)
(***************************************************************************)
EXTENDS Integers, Sequences, FiniteSets, TLC

VARIABLES
    camera,              \* the device: per control, whether exposed, its description and its actual value
    gamma_control,       \* ControlController for KnownCameraControl::Gamma
    brightness_control,  \* ControlController for KnownCameraControl::Brightness
    gamma_mode,          \* GammaMode
    call,                \* the last step: the event handled (or the proxy call made), and for a proxy call its argument and the cached value before it
    pc,                  \* where main is: "start", "loop", "exited", "panicked"
    writes,              \* per control, the set_camera_control calls issued by the last step
    failures,            \* the set_camera_control calls that returned Err so far
    averager,            \* Averager: window and index
    added,               \* the values handed to Averager::add so far, oldest first
    returned,            \* what the last call of Averager::add or set_closest_aspect returned
    canvas,              \* the window: its size, and the aspect it is fitted to
    resized,             \* main's `resized`
    title_delay,         \* main's `title_delay`
    events,              \* the events waiting in the event pump
    scene,               \* the lightness the camera measures at each gamma, for a scene that does not change
    shown                \* what became of the frames: blits, title refreshes, and the iterations since the last refresh

\* The exposure state: the device, the two proxies and the mode
exposure == <<camera, gamma_control, brightness_control, gamma_mode, writes, failures>>

\* The window, the frame statistics and the event pump
display == <<averager, added, returned, canvas, resized, title_delay, events, scene, shown>>

vars == <<camera, gamma_control, brightness_control, gamma_mode, call, pc,
          writes, failures, averager, added, returned, canvas, resized,
          title_delay, events, scene, shown>>

-----------------------------------------------------------------------------
(* Bounds of the model *)

\* gamma values range over -1 .. MaxVal
MaxVal == 1

Values == (0 - 1)..MaxVal

\* brightness takes two values: the program only ever asks for its default
\* and its maximum
BrightnessValues == {0, 1}

\* at most MaxFailures device writes are refused in a run
MaxFailures == 1

\* measured perceptual lightness of a frame (CIE L*, 0..100): the values
\* around the two edges of the dead-band and the extremes
Lightness == {0, 4, 5, 15, 25, 26, 100}

\* window sizes range over (1 .. MaxSide) x (1 .. MaxSide) and the sizes of
\* BigSizes
MaxSide == 6

BigSizes == {<<800, 450>>, <<800, 500>>, <<801, 500>>, <<1000, 451>>,
             <<15, 11>>, <<33, 40>>, <<352, 288>>}

Sizes == ((1..MaxSide) \X (1..MaxSide)) \cup BigSizes

\* camera resolutions <<width, height>>: the aspects 4:3, 16:9 and 2:1,
\* the aspect 11:9 of the CIF format 352x288, two aspects whose f64 is not
\* exact (15:11, 7:3) and a portrait one (3:4)
Resolutions == {<<4, 3>>, <<16, 9>>, <<2, 1>>, <<352, 288>>, <<15, 11>>,
                <<7, 3>>, <<3, 4>>}

\* at most MaxEvents events wait in the event pump when it is polled
MaxEvents == 2

\* the sizes the user drags the window to in the loop specifications
DraggedSizes == {<<4, 3>>, <<4, 4>>, <<5, 4>>}

\* the lightness of the frames in SpecLoop: dark, in the band, bright
LoopLightness == {0, 15, 100}

\* every frame of the loop specifications takes one millisecond
FrameTimes == {1}

\* frame times in whole milliseconds, as Averager::add receives them
Samples == {0, 1, 2}

\* Averager<WINDOW_SIZE> is checked for the capacities 1 .. MaxCapacity and
\* for the capacity main uses
MaxCapacity == 3

\* at most MaxAdds values are added to an Averager in a run
MaxAdds == 6

-----------------------------------------------------------------------------
(* Program constants *)

target_brightness == 15

brightness_range == 10

\* main's `averager: Averager<5>`
WINDOW_SIZE == 5

-----------------------------------------------------------------------------
(* The device *)

Which == {"Gamma", "Brightness"}

\* ControlValueDescription::IntegerRange as a device reports it: the range
\* is not empty and holds the default and the value
Descriptions(V) ==
    {d \in [min : V, max : V, value : V, default : V] :
        /\ d.min <= d.value /\ d.value <= d.max
        /\ d.min <= d.default /\ d.default <= d.max}

\* The values of each control in the model
ValuesOf(which) == IF which = "Gamma" THEN Values ELSE BrightnessValues

\* Camera::camera_control(which): Ok(control) when the device exposes it
camera_control(cam, which) ==
    IF cam[which].exposed THEN <<cam[which].description>> ELSE <<>>

\* Camera::set_camera_control(which, Integer(value)): `ok` is the device's
\* answer; a refused write leaves the device's value as it was
set_camera_control(cam, which, value, ok) ==
    IF ok THEN [cam EXCEPT ![which].value = value] ELSE cam

-----------------------------------------------------------------------------
(* set_closest_aspect *)

\* the fraction bits of an f64
MantissaBits == 52

\* 2^n
Pow2(n) == 2 ^ n

\* the powers of two a u32 is compared with
PowersOfTwo == {2 ^ e : e \in 0..29}

\* the largest power of two that is at most q, for q > 0
LeadingPower(q) == CHOOSE p \in PowersOfTwo : p <= q /\ q < 2 * p

\* 2^n modulo d
RECURSIVE Pow2Mod(_, _)
Pow2Mod(n, d) ==
    IF n = 0 THEN 1 % d
    ELSE IF n % 2 = 1 THEN (2 * Pow2Mod(n - 1, d)) % d
    ELSE (Pow2Mod(n \div 2, d) * Pow2Mod(n \div 2, d)) % d

\* the binary exponent of n / d: the e with 2^e <= n / d < 2^(e + 1)
\* (0 for n = 0)
RECURSIVE Exponent(_, _)
Exponent(n, d) ==
    IF n = 0 THEN 0
    ELSE IF n >= 2 * d THEN 1 + Exponent(n, 2 * d)
    ELSE IF n < d THEN Exponent(2 * n, d) - 1
    ELSE 0

\* l * 2^e > r
Exceeds(l, e, r) == IF e >= 0 THEN l * Pow2(e) > r ELSE l > r * Pow2(0 - e)

\* 2 when the f64s just below q lie twice as close as those above it (q is
\* a power of two), 1 otherwise
Closer(q) == IF q \in PowersOfTwo THEN 2 ELSE 1

\* width as f64 / height as f64: the quotient rounded to the nearest f64.
\* It is kept as its two terms, its binary exponent exp and its rounding
\* error err: the f64 is num / den + err / (den * 2^(MantissaBits - exp))
Ratio(width, height) ==
    LET exp == Exponent(width, height)
        r == (width * Pow2Mod(MantissaBits - exp, height)) % height
    IN  [num |-> width, den |-> height, exp |-> exp,
         err |-> IF 2 * r < height THEN 0 - r ELSE height - r]

\* x as f64 * aspect: the product of x and the f64 aspect, rounded to the
\* nearest f64 (ties to even), as its whole part and whether it lies above
\* its whole part.  A product that is not whole for the exact aspect is
\* too far from a whole number for the rounding to reach one
Product(x, aspect) ==
    LET n == x * aspect.num
        q == n \div aspect.den
        half == aspect.den * LeadingPower(q)
    IN  IF n % aspect.den # 0 THEN [whole |-> q, above |-> TRUE]
        ELSE IF q = 0 \/ aspect.err = 0 THEN [whole |-> q, above |-> FALSE]
        ELSE IF aspect.err < 0
        THEN IF Exceeds(x * (0 - aspect.err) * Closer(q), aspect.exp + 1, half)
             THEN [whole |-> q - 1, above |-> TRUE]
             ELSE [whole |-> q, above |-> FALSE]
        ELSE [whole |-> q,
              above |-> Exceeds(x * aspect.err, aspect.exp + 1, half)]

\* (x as f64 * aspect) as u32: the rounded product truncated
Scaled(x, aspect) == Product(x, aspect).whole

\* (x as f64 / aspect) as u32: the quotient of x and the f64 aspect, rounded
\* to the nearest f64, truncated.  A whole exact quotient q becomes q - 1
\* when the f64 aspect lies far enough above the exact one
Unscaled(x, aspect) ==
    LET n == x * aspect.den
        q == n \div aspect.num
    IN  IF n % aspect.num # 0 \/ q = 0 \/ aspect.err <= 0 THEN q
        ELSE IF Exceeds(q * aspect.err * Closer(q), aspect.exp + 1,
                        aspect.num * LeadingPower(q))
             THEN q - 1
             ELSE q

\* set_closest_aspect on a window of the given size: what it returns, and
\* the size it hands to set_size (<<>> when it returns before the call)
set_closest_aspect(size, aspect) ==
    LET width == size[1]
        height == size[2]
        height_scaled == Product(height, aspect)
        \* height_scaled > width as f64
        fitted == IF \/ height_scaled.whole > width
                     \/ height_scaled.whole = width /\ height_scaled.above
               THEN <<width, Unscaled(width, aspect)>>
               ELSE <<Scaled(height, aspect), height>>
    IN  [changed |-> fitted # size, request |-> IF fitted = size THEN <<>> ELSE <<fitted>>]

\* The window and what main keeps for it: its size, the camera's resolution
\* and `aspect`, computed once from the resolution
Canvas(size, resolution) ==
    [size |-> size, resolution |-> resolution,
     aspect |-> Ratio(resolution[1], resolution[2])]

\* Window::set_size: the window takes the requested size when the window
\* system applies it; an Err is logged and nothing else
set_size(size, request, applied) ==
    IF request # <<>> /\ applied THEN request[1] ELSE size

-----------------------------------------------------------------------------
(* Averager *)

\* Averager::<n>::new: a window of n zeros, indexed from 0
Averager_new(n) == [window |-> [i \in 0..(n - 1) |-> 0], index |-> 0]

\* window.iter().sum() over the first n slots
RECURSIVE sum(_, _)
sum(window, n) == IF n = 0 THEN 0 ELSE sum(window, n - 1) + window[n - 1]

\* The quotient sum / WINDOW_SIZE that add returns, kept as its two terms
Quotient(total, n) == [sum |-> total, over |-> n]

\* add that always writes slot 0
AddNoAdvance(self, value) ==
    LET len == Cardinality(DOMAIN self.window)
        window == [self.window EXCEPT ![0] = value]
    IN  [self |-> [window |-> window, index |-> 0],
         result |-> Quotient(sum(window, len), len)]

\* Averager::add: the averager after the call and the value returned
add(self, value) ==
    LET len == Cardinality(DOMAIN self.window)
        window == [self.window EXCEPT ![self.index] = value]
        index == IF self.index + 1 = len THEN 0 ELSE self.index + 1
    IN  [self |-> [window |-> window, index |-> index],
         result |-> Quotient(sum(window, len), len)]

-----------------------------------------------------------------------------
(* ControlController *)

\* The proxy before `new` has run
NoController == [control |-> <<>>, current |-> 0]

\* Whether a description is a ControlValueDescription::IntegerRange
IsIntegerRange(description) == DOMAIN description = {"min", "max", "value", "default"}

\* info() unwraps the control and takes its integer range: it panics when
\* the control is None, and when its description is not an IntegerRange
InfoPanics(self) == self.control = <<>> \/ ~IsIntegerRange(self.control[1])

info(self) == self.control[1]

\* clamp without the lower bound
ClampNoLower(self, value) ==
    IF value > info(self).max THEN info(self).max ELSE value

\* i64::clamp(min, max)
clamp(self, value) ==
    IF value < info(self).min THEN info(self).min
    ELSE IF value > info(self).max THEN info(self).max
    ELSE value

current_raw(self) == info(self).value

current(self) == self.current

\* set without the comparison with the cached value
SetNoDedup(self, value) ==
    IF self.control = <<>>
    THEN [self |-> self, write |-> <<>>]
    ELSE [self |-> [self EXCEPT !.current = clamp(self, value)],
          write |-> <<clamp(self, value)>>]

\* set: the proxy after the call, and the value handed to
\* set_camera_control (<<>> when the call returns before the write)
set(self, value) ==
    IF self.control = <<>>
    THEN [self |-> self, write |-> <<>>]
    ELSE LET v == clamp(self, value) IN
         IF v = self.current
         THEN [self |-> self, write |-> <<>>]
         ELSE [self |-> [self EXCEPT !.current = v], write |-> <<v>>]

\* reset to the minimum instead of the default
ResetToMin(self) == set(self, info(self).min)

\* reset: set(info().default)
reset(self) == set(self, info(self).default)

\* set_max to the default instead of the maximum
SetMaxToDefault(self) == set(self, info(self).default)

\* set_max: set(info().max)
set_max(self) == set(self, info(self).max)

\* The device after the write of a `set` result, if it issued one
Written(cam, which, r, ok) ==
    IF r.write = <<>> THEN cam
    ELSE set_camera_control(cam, which, r.write[1], ok)

\* The refused writes after the write of a `set` result, if it issued one
Refused(n, r, ok) ==
    IF r.write = <<>> \/ ok THEN n ELSE n + 1

\* ControlController::new: the struct with control = camera_control().ok()
\* and current = current_raw()
new(cam, which) ==
    LET this == [control |-> camera_control(cam, which), current |-> 0]
    IN  [this EXCEPT !.current = current_raw(this)]

-----------------------------------------------------------------------------
(* GammaMode *)

Auto == [tag |-> "Auto", fullbright |-> FALSE, current |-> 0]

Manual(fullbright, cur) == [tag |-> "Manual", fullbright |-> fullbright, current |-> cur]

-----------------------------------------------------------------------------
(* main *)

\* A device that does not expose a control: camera_control is an Err and
\* nothing else of the control is seen by the program
NoDescription == [min |-> 0, max |-> 0, value |-> 0, default |-> 0]

\* A ControlValueDescription of another kind than IntegerRange
NotIntegerRange == [kind |-> "Boolean"]

\* A control of the device: whether it is exposed, the description it
\* reports, and the value the device holds now.  An exposed control
\* reports an integer range or a description of another kind
Devices(which) ==
    {c \in [exposed : BOOLEAN, description : Descriptions(ValuesOf(which)),
             value : ValuesOf(which)] :
        /\ c.value = c.description.value
        /\ ~c.exposed => c.description = NoDescription}
    \cup {[exposed |-> TRUE, description |-> NotIntegerRange, value |-> 0]}

Cameras == {c \in [Which -> UNION {Devices(w) : w \in Which}] :
               \A w \in Which : c[w] \in Devices(w)}

NoWrites == [w \in Which |-> 0]

NoCall == [op |-> "none", value |-> 0, prev |-> 0]

\* The last step was the handling of the named event
Handled(event) == call' = [op |-> event, value |-> 0, prev |-> 0]

\* What `shown` holds before any frame: the blits so far, counted modulo
\* 2; whether the title was ever set; and since the title was last set,
\* the frames shown, whether an iteration was skipped, and whether a key
\* was pressed
NoFrames == [blits |-> 0, titled |-> FALSE, frames |-> 0,
             skipped |-> FALSE, keyed |-> FALSE]

\* main's other locals as the loop finds them, for a camera of the given
\* resolution: the window is built at the resolution
Entered(resolution) ==
    /\ averager = Averager_new(WINDOW_SIZE)
    /\ added = <<>>
    /\ returned = <<>>
    /\ canvas = Canvas(resolution, resolution)
    /\ resized = FALSE
    /\ title_delay = 0
    /\ events = 0
    /\ scene = <<>>
    /\ shown = NoFrames

\* The exposure state on its own: the window, the frame statistics and the
\* event pump are left out of Spec and SpecProxy, which hold them still
Init ==
    /\ camera \in Cameras
    /\ gamma_control = NoController
    /\ brightness_control = NoController
    /\ gamma_mode = Manual(FALSE, 0)
    /\ call = NoCall
    /\ pc = "start"
    /\ writes = NoWrites
    /\ failures = 0
    /\ Entered(<<1, 1>>)

\* main up to the loop: the two proxies are built; `new` panics (info()
\* unwraps None) when the device does not expose the control
Startup ==
    /\ pc = "start"
    /\ IF InfoPanics([control |-> camera_control(camera, "Gamma")])
          \/ InfoPanics([control |-> camera_control(camera, "Brightness")])
       THEN /\ pc' = "panicked"
            /\ UNCHANGED <<gamma_control, brightness_control, gamma_mode>>
       ELSE /\ gamma_control' = new(camera, "Gamma")
            /\ brightness_control' = new(camera, "Brightness")
            /\ gamma_mode' = Manual(FALSE, current(new(camera, "Gamma")))
            /\ pc' = "loop"
    /\ UNCHANGED <<camera, call, writes, failures>>

\* The two proxies, the device and the write bookkeeping after the `set`
\* results g (gamma) and b (brightness), in the order the code calls them;
\* okG and okB are the device's answers to the writes (TRUE where none is
\* issued)
Controls(g, b, okG, okB) ==
    /\ g.write = <<>> => okG
    /\ b.write = <<>> => okB
    /\ Refused(Refused(failures, g, okG), b, okB) <= MaxFailures
    /\ gamma_control' = g.self
    /\ brightness_control' = b.self
    /\ camera' = Written(Written(camera, "Gamma", g, okG), "Brightness", b, okB)
    /\ failures' = Refused(Refused(failures, g, okG), b, okB)
    /\ writes' = [Gamma |-> Len(g.write), Brightness |-> Len(b.write)]

\* A `set` result that leaves the proxy alone
Untouched(self) == [self |-> self, write |-> <<>>]

\* the toggle without the flip
ToggleKeepsMode(mode, gamma) == mode

\* Keycode::G: the mode after the toggle, given the gamma proxy after its reset
ToggleMode(mode, gamma) ==
    IF mode.tag = "Manual" THEN Auto ELSE Manual(FALSE, current(gamma))

\* Event::KeyDown, Keycode::G
KeyG(okG, okB) ==
    /\ pc = "loop"
    /\ LET g == reset(gamma_control)
           b == reset(brightness_control)
       IN  /\ Controls(g, b, okG, okB)
           /\ gamma_mode' = ToggleMode(gamma_mode, g.self)
    /\ Handled("G")
    /\ UNCHANGED pc

\* Keycode::F that leaves gamma where it is when fullbright is turned off
KeyFNoRestore(okG, okB) ==
    /\ pc = "loop"
    /\ IF gamma_mode.tag = "Manual"
       THEN LET fullbright == ~gamma_mode.fullbright
                g == IF fullbright THEN set_max(gamma_control)
                     ELSE Untouched(gamma_control)
                b == IF fullbright THEN set_max(brightness_control)
                     ELSE reset(brightness_control)
            IN  /\ Controls(g, b, okG, okB)
                /\ gamma_mode' = [gamma_mode EXCEPT !.fullbright = fullbright]
       ELSE /\ Controls(Untouched(gamma_control), Untouched(brightness_control), okG, okB)
            /\ UNCHANGED gamma_mode
    /\ Handled("F")
    /\ UNCHANGED pc

\* Event::KeyDown, Keycode::F
KeyF(okG, okB) ==
    /\ pc = "loop"
    /\ IF gamma_mode.tag = "Manual"
       THEN LET fullbright == ~gamma_mode.fullbright
                g == IF fullbright THEN set_max(gamma_control)
                     ELSE set(gamma_control, gamma_mode.current)
                b == IF fullbright THEN set_max(brightness_control)
                     ELSE reset(brightness_control)
            IN  /\ Controls(g, b, okG, okB)
                /\ gamma_mode' = [gamma_mode EXCEPT !.fullbright = fullbright]
       ELSE /\ Controls(Untouched(gamma_control), Untouched(brightness_control), okG, okB)
            /\ UNCHANGED gamma_mode
    /\ Handled("F")
    /\ UNCHANGED pc

\* Event::KeyDown, Keycode::Up | Keycode::Down
KeyUpDown(code, okG) ==
    /\ pc = "loop"
    /\ IF gamma_mode.tag = "Manual"
       THEN LET new_current == IF code = "Up" THEN gamma_mode.current + 1
                               ELSE gamma_mode.current - 1
                g == set(gamma_control, new_current)
            IN  /\ Controls(g, Untouched(brightness_control), okG, TRUE)
                /\ gamma_mode' = [gamma_mode EXCEPT !.current = current(g.self)]
       ELSE /\ Controls(Untouched(gamma_control), Untouched(brightness_control), okG, TRUE)
            /\ UNCHANGED gamma_mode
    /\ Handled(code)
    /\ UNCHANGED pc

\* Event::KeyDown with Keycode::SPACE, Keycode::M or any other key: neither
\* proxy nor the mode is touched (the window size and `mirrored`, which
\* these keys change, are not among the variables)
KeyOther ==
    /\ pc = "loop"
    /\ Controls(Untouched(gamma_control), Untouched(brightness_control), TRUE, TRUE)
    /\ Handled("key")
    /\ UNCHANGED <<gamma_mode, pc>>

\* the Auto step that moves gamma the other way
AutoStepAway(self, lightness) ==
    LET brightness_diff == target_brightness - lightness
        abs == IF brightness_diff < 0 THEN 0 - brightness_diff ELSE brightness_diff
    IN  IF abs > brightness_range
        THEN LET current_gamma == current(self)
                 new_gamma == IF brightness_diff < 0 THEN current_gamma + 1
                              ELSE current_gamma - 1
             IN  set(self, new_gamma)
        ELSE Untouched(self)

\* the Auto step without the dead-band
AutoStepNoBand(self, lightness) ==
    IF target_brightness - lightness < 0
    THEN set(self, current(self) - 1)
    ELSE set(self, current(self) + 1)

\* The Auto branch of the frame step on a frame of the given lightness
AutoStep(self, lightness) ==
    LET brightness_diff == target_brightness - lightness
        abs == IF brightness_diff < 0 THEN 0 - brightness_diff ELSE brightness_diff
    IN  IF abs > brightness_range
        THEN LET current_gamma == current(self)
                 new_gamma == IF brightness_diff < 0 THEN current_gamma - 1
                              ELSE current_gamma + 1
             IN  set(self, new_gamma)
        ELSE Untouched(self)

\* The loop body after the event poll: frame capture, decode and the Auto
\* step.  A failed capture or decode `continue`s.
Frame(captured, decoded, lightness, okG) ==
    /\ pc = "loop"
    /\ LET g == IF captured /\ decoded /\ gamma_mode = Auto
                THEN AutoStep(gamma_control, lightness)
                ELSE Untouched(gamma_control)
       IN  Controls(g, Untouched(brightness_control), okG, TRUE)
    /\ Handled(IF captured /\ decoded THEN "frame" ELSE "no frame")
    /\ UNCHANGED <<gamma_mode, pc>>

\* Event::Quit: `break 'window_loop`, then the two resets after the loop
Quit(okG, okB) ==
    /\ pc = "loop"
    /\ Controls(reset(gamma_control), reset(brightness_control), okG, okB)
    /\ pc' = "exited"
    /\ Handled("Quit")
    /\ UNCHANGED gamma_mode

Next ==
    \/ Startup /\ UNCHANGED display
    \/ \E okG, okB \in BOOLEAN : KeyG(okG, okB) /\ UNCHANGED display
    \/ \E okG, okB \in BOOLEAN : KeyF(okG, okB) /\ UNCHANGED display
    \/ \E code \in {"Up", "Down"}, okG \in BOOLEAN :
           KeyUpDown(code, okG) /\ UNCHANGED display
    \/ KeyOther /\ UNCHANGED display
    \/ \E captured, decoded \in BOOLEAN :
           \E lightness \in (IF captured /\ decoded THEN Lightness ELSE {0}),
              okG \in (IF captured /\ decoded THEN BOOLEAN ELSE {TRUE}) :
               Frame(captured, decoded, lightness, okG) /\ UNCHANGED display
    \/ \E okG, okB \in BOOLEAN : Quit(okG, okB) /\ UNCHANGED display

Spec == Init /\ [][Next]_vars

-----------------------------------------------------------------------------
(* ControlController on its own: the calls of a built gamma proxy in any   *)
(* order and with any argument                                             *)

\* the arguments of set: every value of the range and two beyond each end
Requests == (0 - 3)..(MaxVal + 2)

InitProxy ==
    /\ camera \in {c \in Cameras :
                       /\ ~InfoPanics([control |-> camera_control(c, "Gamma")])
                       /\ ~c["Brightness"].exposed}
    /\ gamma_control = new(camera, "Gamma")
    /\ brightness_control = NoController
    /\ gamma_mode = Manual(FALSE, 0)
    /\ call = [op |-> "new", value |-> 0, prev |-> 0]
    /\ pc = "proxy"
    /\ writes = NoWrites
    /\ failures = 0
    /\ Entered(<<1, 1>>)

\* A call on the gamma proxy with result r
Called(op, value, r, ok) ==
    /\ pc = "proxy"
    /\ Controls(r, Untouched(brightness_control), ok, TRUE)
    /\ call' = [op |-> op, value |-> value, prev |-> current(gamma_control)]
    /\ UNCHANGED <<gamma_mode, pc>>

ProxySet(value, ok) == Called("set", value, set(gamma_control, value), ok)

ProxyReset(ok) == Called("reset", 0, reset(gamma_control), ok)

ProxySetMax(ok) == Called("set_max", 0, set_max(gamma_control), ok)

NextProxy ==
    \/ \E value \in Requests, ok \in BOOLEAN : ProxySet(value, ok) /\ UNCHANGED display
    \/ \E ok \in BOOLEAN : ProxyReset(ok) /\ UNCHANGED display
    \/ \E ok \in BOOLEAN : ProxySetMax(ok) /\ UNCHANGED display

SpecProxy == InitProxy /\ [][NextProxy]_vars

-----------------------------------------------------------------------------
(* Averager on its own: add called with any values on a new Averager of    *)
(* any capacity                                                            *)

Capacities == (1..MaxCapacity) \cup {WINDOW_SIZE}

\* The exposure state of a specification that has no camera in it
NoCamera == [w \in Which |-> [exposed |-> FALSE, description |-> NoDescription, value |-> 0]]

Parked ==
    /\ camera = NoCamera
    /\ gamma_control = NoController
    /\ brightness_control = NoController
    /\ gamma_mode = Manual(FALSE, 0)
    /\ writes = NoWrites
    /\ failures = 0

InitAverager ==
    /\ Parked
    /\ call = [op |-> "new", value |-> 0, prev |-> 0]
    /\ pc = "averager"
    /\ averager \in {Averager_new(n) : n \in Capacities}
    /\ added = <<>>
    /\ returned = <<>>
    /\ canvas = Canvas(<<1, 1>>, <<1, 1>>)
    /\ resized = FALSE
    /\ title_delay = 0
    /\ events = 0
    /\ scene = <<>>
    /\ shown = NoFrames

\* averager.add(value)
Add(value) ==
    /\ pc = "averager"
    /\ Len(added) < MaxAdds
    /\ averager' = add(averager, value).self
    /\ returned' = <<add(averager, value).result>>
    /\ added' = Append(added, value)
    /\ call' = [op |-> "add", value |-> value, prev |-> 0]
    /\ UNCHANGED <<exposure, pc, canvas, resized, title_delay, events, scene, shown>>

NextAverager == \E value \in Samples : Add(value)

SpecAverager == InitAverager /\ [][NextAverager]_vars

-----------------------------------------------------------------------------
(* The whole loop: the event pump, the resize handling, the frame step and *)
(* the title, for one camera whose writes are all accepted.  `mirrored`,   *)
(* which only flips the image, is left out.  In SpecLoop the user presses  *)
(* keys and quits but never drags the window; in SpecResize the user drags *)
(* the window, presses SPACE and quits.                                    *)

\* A camera with both controls, at its defaults
LoopCamera ==
    [Gamma |-> [exposed |-> TRUE, value |-> 0,
                description |-> [min |-> 0, max |-> MaxVal, value |-> 0, default |-> 0]],
     Brightness |-> [exposed |-> TRUE, value |-> 0,
                     description |-> [min |-> 0, max |-> 1, value |-> 0, default |-> 0]]]

\* main at the top of the loop, with the events that arrived meanwhile
InitLoop ==
    /\ camera = LoopCamera
    /\ gamma_control = new(camera, "Gamma")
    /\ brightness_control = new(camera, "Brightness")
    /\ gamma_mode = Manual(FALSE, current(gamma_control))
    /\ call = NoCall
    /\ pc = "loop"
    /\ writes = NoWrites
    /\ failures = 0
    /\ averager = Averager_new(WINDOW_SIZE)
    /\ added = <<>>
    /\ returned = <<>>
    /\ canvas = Canvas(<<4, 3>>, <<4, 3>>)
    /\ resized = FALSE
    /\ title_delay = 0
    /\ events \in 0..MaxEvents
    /\ scene = <<>>
    /\ shown = NoFrames

\* events.poll_iter() yields the next event
Polled == events > 0 /\ events' = events - 1

\* `title_delay = 0` after the match of a KeyDown
KeyDown ==
    /\ Polled
    /\ title_delay' = 0
    /\ shown' = [shown EXCEPT !.keyed = TRUE]
    /\ UNCHANGED <<averager, added, returned, resized, scene>>

PollKeyG == KeyG(TRUE, TRUE) /\ KeyDown /\ UNCHANGED canvas

PollKeyF == KeyF(TRUE, TRUE) /\ KeyDown /\ UNCHANGED canvas

PollKeyUpDown(code) == KeyUpDown(code, TRUE) /\ KeyDown /\ UNCHANGED canvas

\* Keycode::SPACE: set_size(width, height) with the camera's resolution
PollKeySpace(applied) ==
    /\ KeyOther
    /\ KeyDown
    /\ canvas.size = canvas.resolution => applied
    /\ canvas' = [canvas EXCEPT !.size = set_size(canvas.size, <<canvas.resolution>>, applied)]

\* Keycode::M and the keys without a meaning
PollKeyOther == KeyOther /\ KeyDown /\ UNCHANGED canvas

\* WindowEvent::SizeChanged: the user has dragged the window to `size`
PollSizeChanged(size) ==
    /\ pc = "loop"
    /\ Polled
    /\ Controls(Untouched(gamma_control), Untouched(brightness_control), TRUE, TRUE)
    /\ Handled("SizeChanged")
    /\ canvas' = [canvas EXCEPT !.size = size]
    /\ resized' = TRUE
    /\ UNCHANGED <<gamma_mode, pc, averager, added, returned, title_delay, scene, shown>>

\* Event::Quit that handles the rest of the poll before it leaves
PollQuitDrains ==
    /\ Quit(TRUE, TRUE)
    /\ events > 0 /\ events' = 0
    /\ UNCHANGED <<averager, added, returned, canvas, resized, title_delay, scene, shown>>

\* Event::Quit: `break 'window_loop` out of the poll, and the teardown
PollQuit ==
    /\ Quit(TRUE, TRUE)
    /\ Polled
    /\ UNCHANGED <<averager, added, returned, canvas, resized, title_delay, scene, shown>>

\* the resize handling that never clears the flag
SettledKeepsFlag(window, result, applied) ==
    IF result # <<>>
    THEN [canvas |-> [window EXCEPT
                          !.size = set_size(window.size, result[1].request, applied)],
          resized |-> TRUE]
    ELSE [canvas |-> window, resized |-> FALSE]

\* `if resized { if !set_closest_aspect(..) { resized = false } }`: the
\* window and the flag after it; `result` is what set_closest_aspect
\* returned, <<>> when the flag was not set and it was not called
Settled(window, result, applied) ==
    IF result # <<>>
    THEN [canvas |-> [window EXCEPT
                          !.size = set_size(window.size, result[1].request, applied)],
          resized |-> result[1].changed]
    ELSE [canvas |-> window, resized |-> FALSE]

\* the countdown that sets the title on every frame
CountdownEveryFrame(delay) == [title_delay |-> 10, refresh |-> TRUE]

\* `title_delay -= 1; if title_delay <= 0 { set_title(..); title_delay = 10 }`
Countdown(delay) ==
    IF delay - 1 <= 0
    THEN [title_delay |-> 10, refresh |-> TRUE]
    ELSE [title_delay |-> delay - 1, refresh |-> FALSE]

\* the loop body that counts the title down on a failed frame too
IterationCountsFailures(captured, decoded, lightness, applied, frametime, arrived) ==
    /\ events = 0
    /\ events' = arrived
    /\ Frame(captured, decoded, lightness, TRUE)
    /\ IF captured /\ decoded
       THEN /\ averager' = add(averager, frametime).self
            /\ title_delay' = Countdown(title_delay).title_delay
            /\ shown' = IF Countdown(title_delay).refresh
                        THEN [blits |-> 1 - shown.blits, titled |-> TRUE, frames |-> 0,
                              skipped |-> FALSE, keyed |-> FALSE]
                        ELSE [shown EXCEPT !.blits = 1 - shown.blits,
                                           !.frames = shown.frames + 1]
       ELSE /\ UNCHANGED averager
            /\ title_delay' = Countdown(title_delay).title_delay
            /\ shown' = [shown EXCEPT !.skipped = TRUE]
    /\ UNCHANGED <<added, scene>>
    /\ returned' = IF resized
                   THEN <<set_closest_aspect(canvas.size, canvas.aspect)>>
                   ELSE <<>>
    /\ applied \/ (returned' # <<>> /\ returned'[1].changed)
    /\ canvas' = Settled(canvas, returned', applied).canvas
    /\ resized' = Settled(canvas, returned', applied).resized

\* The loop body after the poll found no more events: the resize handling,
\* the frame step, the blit, the frame time and the title; `arrived` are
\* the events the next poll finds.  The surface calls of the blit, which
\* unwrap their results, are taken to succeed.
Iteration(captured, decoded, lightness, applied, frametime, arrived) ==
    /\ events = 0
    /\ events' = arrived
    /\ Frame(captured, decoded, lightness, TRUE)
    /\ IF captured /\ decoded
       THEN /\ averager' = add(averager, frametime).self
            /\ title_delay' = Countdown(title_delay).title_delay
            /\ shown' = IF Countdown(title_delay).refresh
                        THEN [blits |-> 1 - shown.blits, titled |-> TRUE, frames |-> 0,
                              skipped |-> FALSE, keyed |-> FALSE]
                        ELSE [shown EXCEPT !.blits = 1 - shown.blits,
                                           !.frames = shown.frames + 1]
       ELSE /\ UNCHANGED <<averager, title_delay>>
            /\ shown' = [shown EXCEPT !.skipped = TRUE]
    /\ UNCHANGED <<added, scene>>
    /\ returned' = IF resized
                   THEN <<set_closest_aspect(canvas.size, canvas.aspect)>>
                   ELSE <<>>
    /\ applied \/ (returned' # <<>> /\ returned'[1].changed)
    /\ canvas' = Settled(canvas, returned', applied).canvas
    /\ resized' = Settled(canvas, returned', applied).resized

\* What the camera and the decoder make of a frame: none captured, one
\* captured that does not decode, one decoded
Outcomes == {<<FALSE, FALSE>>, <<TRUE, FALSE>>, <<TRUE, TRUE>>}

NextLoop ==
    \/ PollKeyG
    \/ PollKeyF
    \/ \E code \in {"Up", "Down"} : PollKeyUpDown(code)
    \/ PollKeySpace(TRUE)
    \/ PollKeyOther
    \/ PollQuit
    \/ \E outcome \in Outcomes :
           \E lightness \in (IF outcome[2] THEN LoopLightness ELSE {0}),
              frametime \in FrameTimes, arrived \in 0..MaxEvents :
               Iteration(outcome[1], outcome[2], lightness, TRUE, frametime, arrived)

SpecLoop == InitLoop /\ [][NextLoop]_vars

NextResize ==
    \/ \E size \in DraggedSizes : PollSizeChanged(size)
    \/ \E applied \in BOOLEAN : PollKeySpace(applied)
    \/ PollQuit
    \/ \E outcome \in Outcomes, applied \in BOOLEAN :
           \E frametime \in FrameTimes, arrived \in 0..MaxEvents :
               Iteration(outcome[1], outcome[2], target_brightness, applied,
                         frametime, arrived)

SpecResize == InitLoop /\ [][NextResize]_vars

\* The loop never waits: the poll returns at once and so does the camera,
\* with a frame or an error
SpecResizeFair == SpecResize /\ WF_vars(NextResize)

-----------------------------------------------------------------------------
(* Auto mode in front of a scene that does not change: the lightness of    *)
(* every frame is a fixed non-decreasing function of the device's gamma;   *)
(* no events arrive and every write is accepted                            *)

Scenes ==
    {f \in [Values -> LoopLightness] :
        \A g, h \in Values : g <= h => f[g] <= f[h]}

\* The loop in Auto at any gamma of the range -1 .. MaxVal, as G and the
\* frames of earlier scenes leave it
InitAuto ==
    /\ \E g \in Values :
        /\ camera = [LoopCamera EXCEPT !["Gamma"] =
                        [exposed |-> TRUE, value |-> g,
                         description |-> [min |-> 0 - 1, max |-> MaxVal,
                                          value |-> 0, default |-> 0]]]
        /\ gamma_control = [new(camera, "Gamma") EXCEPT !.current = g]
    /\ brightness_control = new(camera, "Brightness")
    /\ gamma_mode = Auto
    /\ call = NoCall
    /\ pc = "loop"
    /\ writes = NoWrites
    /\ failures = 0
    /\ averager = Averager_new(WINDOW_SIZE)
    /\ added = <<>>
    /\ returned = <<>>
    /\ canvas = Canvas(<<4, 3>>, <<4, 3>>)
    /\ resized = FALSE
    /\ title_delay = 0
    /\ events = 0
    /\ scene \in Scenes
    /\ shown = NoFrames

\* An iteration whose frame, if one is captured, shows the scene at the
\* device's gamma
StaticIteration(captured, decoded, frametime) ==
    /\ scene # <<>>
    /\ Iteration(captured, decoded, scene[camera["Gamma"].value], TRUE, frametime, 0)

NextAuto ==
    \E outcome \in Outcomes, frametime \in FrameTimes :
        StaticIteration(outcome[1], outcome[2], frametime)

SpecAuto == InitAuto /\ [][NextAuto]_vars

-----------------------------------------------------------------------------
(* set_closest_aspect on its own: applied again and again to a window of   *)
(* any size, for a camera of any resolution                                *)

InitAspect ==
    /\ Parked
    /\ call = NoCall
    /\ pc = "aspect"
    /\ averager = Averager_new(WINDOW_SIZE)
    /\ added = <<>>
    /\ returned = <<>>
    /\ canvas \in {Canvas(size, resolution) : size \in Sizes, resolution \in Resolutions}
    /\ resized = FALSE
    /\ title_delay = 0
    /\ events = 0
    /\ scene = <<>>
    /\ shown = NoFrames

\* set_closest_aspect(&mut canvas, aspect); `applied` is whether the window
\* system applies the set_size it issues (TRUE where it issues none)
Fit(applied) ==
    /\ pc = "aspect"
    /\ LET r == set_closest_aspect(canvas.size,
                                   canvas.aspect)
       IN  /\ r.request = <<>> => applied
           /\ canvas' = [canvas EXCEPT !.size = set_size(canvas.size, r.request, applied)]
           /\ returned' = <<r>>
    /\ call' = [op |-> "set_closest_aspect", value |-> 0, prev |-> canvas.size]
    /\ UNCHANGED <<exposure, pc, averager, added, resized, title_delay, events, scene, shown>>

NextAspect == \E applied \in BOOLEAN : Fit(applied)

SpecAspect == InitAspect /\ [][NextAspect]_vars

-----------------------------------------------------------------------------
(* Properties *)

\* What the device reports of a control
Reported(which) == camera[which].description

\* A value bounded into the reported range of a control
Bounded(which, v) ==
    IF v < Reported(which).min THEN Reported(which).min
    ELSE IF v > Reported(which).max THEN Reported(which).max
    ELSE v

\* Whether a value lies in the reported range of a control
InRange(which, v) == Reported(which).min <= v /\ v <= Reported(which).max

\* The device holds the reported default of a control
DeviceAtDefault(which) == camera[which].value = Reported(which).default

\* No write was refused so far and the gamma range has more than one value
PlainRun ==
    /\ failures = 0
    /\ IsIntegerRange(Reported("Gamma"))
    /\ Reported("Gamma").min < Reported("Gamma").max

\* A step of the loop that handles the named key
KeyGStep == call'.op = "G"

KeyFStep == call'.op = "F"

KeyUpStep == call'.op = "Up"

KeyDownStep == call'.op = "Down"

\* A step of the loop that decodes a frame of the given lightness
FrameStep(lightness) ==
    /\ call'.op = "frame"
    /\ \E okG \in BOOLEAN : Frame(TRUE, TRUE, lightness, okG)

\* C1: after set(camera, v) on an exposed control, current() is v bounded
\* into [min, max]; the call issues one device write when that value
\* differs from the value cached before the call and none when it is equal.
C1_SetClampsAndDedups ==
    call.op = "set" =>
        /\ current(gamma_control) = Bounded("Gamma", call.value)
        /\ writes["Gamma"] = (IF Bounded("Gamma", call.value) # call.prev THEN 1 ELSE 0)

\* a set beyond the maximum that changed the cached value and wrote once
C1_Witness ==
    /\ call.op = "set"
    /\ call.value > Reported("Gamma").max
    /\ call.prev < Reported("Gamma").max
    /\ current(gamma_control) = Reported("Gamma").max
    /\ writes["Gamma"] = 1

\* C2: once the proxies are built, through every key event, every frame
\* and the teardown, the cached value of each control lies in the range
\* the device reports for it.
C2_CachedValueInRange ==
    pc \in {"loop", "exited"} =>
        /\ InRange("Gamma", current(gamma_control))
        /\ InRange("Brightness", current(brightness_control))

\* the loop has moved the cached gamma to an end of a range of three values
C2_Witness ==
    /\ pc = "loop"
    /\ writes["Gamma"] = 1
    /\ Reported("Gamma").min < Reported("Gamma").value
    /\ Reported("Gamma").value < Reported("Gamma").max
    /\ current(gamma_control) = Reported("Gamma").min
    /\ current(brightness_control) # Reported("Brightness").value

\* C3: reset leaves current() at the reported default and set_max leaves
\* it at the reported max, whatever was cached before.
C3_ResetAndSetMax ==
    /\ call.op = "reset" => current(gamma_control) = Reported("Gamma").default
    /\ call.op = "set_max" => current(gamma_control) = Reported("Gamma").max

\* a reset that had to move the cached value back to the default
C3_Witness ==
    /\ call.op = "reset"
    /\ call.prev # Reported("Gamma").default
    /\ Reported("Gamma").default # Reported("Gamma").max
    /\ current(gamma_control) = Reported("Gamma").default
    /\ writes["Gamma"] = 1

\* C4: when the device does not expose a control, the proxy's construction
\* and calls complete as no-ops: the program does not panic, no device
\* write is issued and the device is left as it was.
C4_AbsentControlIsNoOp ==
    (\E w \in Which : ~camera[w].exposed) =>
        /\ pc # "panicked"
        /\ writes = NoWrites

\* C5: at process exit the device's gamma and brightness hold
\* their defaults, also after refused writes.
C5_DeviceAtDefaultOnExit ==
    pc = "exited" => DeviceAtDefault("Gamma") /\ DeviceAtDefault("Brightness")

\* C6: after every G press the device's gamma and brightness
\* hold their defaults.
C6_DeviceAtDefaultAfterToggle ==
    call.op = "G" => DeviceAtDefault("Gamma") /\ DeviceAtDefault("Brightness")

\* C7: a G press resets both proxies to their defaults and flips the mode:
\* Manual (fullbright or not) becomes Auto, and Auto becomes
\* Manual{fullbright: false, current: the gamma default}.
C7_ToggleMode ==
    [][KeyGStep =>
        /\ current(gamma_control)' = Reported("Gamma").default
        /\ current(brightness_control)' = Reported("Brightness").default
        /\ gamma_mode.tag = "Manual" => gamma_mode' = Auto
        /\ gamma_mode.tag = "Auto" =>
               gamma_mode' = Manual(FALSE, Reported("Gamma").default)
      ]_vars

\* Manual was entered from Auto on a G press that moved gamma back to its default
C7_Witness ==
    /\ call.op = "G"
    /\ gamma_mode = Manual(FALSE, Reported("Gamma").default)
    /\ Reported("Gamma").min < Reported("Gamma").default
    /\ Reported("Gamma").default < Reported("Gamma").max
    /\ current(gamma_control) = Reported("Gamma").default
    /\ writes["Gamma"] = 1

\* C8: an F press in Manual flips fullbright; turned on, both cached
\* values become their maxima; turned off, the cached gamma becomes the
\* stored Manual.current and the cached brightness its default.  In Auto an
\* F press leaves the mode and both controls as they are.
C8_ToggleFullbright ==
    [][KeyFStep =>
        /\ gamma_mode.tag = "Manual" =>
            /\ gamma_mode' = Manual(~gamma_mode.fullbright, gamma_mode.current)
            /\ gamma_mode'.fullbright =>
                /\ current(gamma_control)' = Reported("Gamma").max
                /\ current(brightness_control)' = Reported("Brightness").max
            /\ ~gamma_mode'.fullbright =>
                /\ current(gamma_control)' = gamma_mode.current
                /\ current(brightness_control)' = Reported("Brightness").default
        /\ gamma_mode.tag = "Auto" =>
            /\ UNCHANGED <<gamma_mode, gamma_control, brightness_control, camera>>
            /\ writes' = NoWrites
      ]_vars

\* fullbright was turned off: gamma went back to a stored value that is
\* neither the default nor the maximum, brightness to its default
C8_Witness ==
    /\ call.op = "F"
    /\ gamma_mode.tag = "Manual"
    /\ ~gamma_mode.fullbright
    /\ gamma_mode.current # Reported("Gamma").default
    /\ gamma_mode.current # Reported("Gamma").max
    /\ current(gamma_control) = gamma_mode.current
    /\ current(brightness_control) = Reported("Brightness").default
    /\ writes["Gamma"] = 1
    /\ writes["Brightness"] = 1

\* What the claims C9 say of every Up or Down press but the presses at a bound
UpDownRule ==
    /\ KeyUpStep /\ gamma_mode.tag = "Manual" =>
        /\ current(gamma_control)' = Bounded("Gamma", gamma_mode.current + 1)
        /\ gamma_mode' = Manual(gamma_mode.fullbright, current(gamma_control)')
    /\ KeyDownStep /\ gamma_mode.tag = "Manual" =>
        /\ current(gamma_control)' = Bounded("Gamma", gamma_mode.current - 1)
        /\ gamma_mode' = Manual(gamma_mode.fullbright, current(gamma_control)')
    /\ pc' \in {"loop", "exited"} /\ gamma_mode'.tag = "Manual" =>
        InRange("Gamma", gamma_mode'.current)
    /\ (KeyUpStep \/ KeyDownStep) /\ gamma_mode.tag = "Auto" =>
        /\ UNCHANGED <<gamma_mode, gamma_control, brightness_control, camera>>
        /\ writes' = NoWrites

\* A press in Manual that asks for a value beyond the range
PressAtBound ==
    /\ gamma_mode.tag = "Manual"
    /\ \/ KeyUpStep /\ gamma_mode.current = Reported("Gamma").max
       \/ KeyDownStep /\ gamma_mode.current = Reported("Gamma").min

\* C9: in Manual an Up (Down) press asks the gamma proxy for
\* current+1 (current-1) and stores the clamped cached value in
\* Manual.current, which so stays in [min, max]; a press at a bound changes
\* neither Manual.current nor the gamma control and issues no device
\* write; in Auto the presses change nothing.  (Stated of the runs in which
\* the device accepts every write and the gamma range has several values.)
C9_PressAtBoundChangesNothing ==
    [][PlainRun' =>
        /\ UpDownRule
        /\ PressAtBound =>
            /\ UNCHANGED <<gamma_mode, gamma_control, camera>>
            /\ writes'["Gamma"] = 0
      ]_vars

\* C10 as claimed: in Auto a decoded frame of lightness L moves the cached
\* gamma up by exactly 1 when L < target - range, down by exactly 1 when
\* L > target + range, and not at all within the band, at every gamma of
\* the range.  (Stated of the runs in which the device accepts every write
\* and the gamma range has several values.)
C10_AutoStepIsExactlyOne ==
    [][\A L \in Lightness :
        PlainRun' /\ gamma_mode = Auto /\ FrameStep(L) =>
            /\ L < target_brightness - brightness_range =>
                   current(gamma_control)' = current(gamma_control) + 1
            /\ L > target_brightness + brightness_range =>
                   current(gamma_control)' = current(gamma_control) - 1
            /\ (/\ L >= target_brightness - brightness_range
                /\ L <= target_brightness + brightness_range) =>
                   current(gamma_control)' = current(gamma_control)
      ]_vars

\* C10 as amended: the step is by exactly 1 except at the end of the range
\* it would leave: at max a dark frame, and at min a bright frame, leaves
\* gamma unchanged.
C10_AutoStep ==
    [][\A L \in Lightness :
        gamma_mode = Auto /\ FrameStep(L) =>
            /\ L < target_brightness - brightness_range =>
                   current(gamma_control)' =
                       (IF current(gamma_control) = Reported("Gamma").max
                        THEN current(gamma_control) ELSE current(gamma_control) + 1)
            /\ L > target_brightness + brightness_range =>
                   current(gamma_control)' =
                       (IF current(gamma_control) = Reported("Gamma").min
                        THEN current(gamma_control) ELSE current(gamma_control) - 1)
            /\ (/\ L >= target_brightness - brightness_range
                /\ L <= target_brightness + brightness_range) =>
                   current(gamma_control)' = current(gamma_control)
      ]_vars

\* in Auto a dark frame moved gamma one above its default
C10_Witness ==
    /\ call.op = "frame"
    /\ gamma_mode = Auto
    /\ current(gamma_control) = Reported("Gamma").default + 1
    /\ writes["Gamma"] = 1
    /\ writes["Brightness"] = 0

\* C15 as claimed: whenever the mode is Manual, with fullbright on or off,
\* Manual.current equals the cached value of the gamma proxy.  (Stated of
\* the runs in which the device accepts every write.)
C15_ManualMirrorsGamma ==
    pc = "loop" /\ failures = 0 /\ gamma_mode.tag = "Manual" =>
        gamma_mode.current = current(gamma_control)

\* C15 as amended: in Manual with fullbright off, Manual.current equals
\* the cached gamma; with fullbright on, the cached gamma is the maximum
\* or Manual.current, which keeps the value to restore.
C15_MirrorsUnlessFullbright ==
    pc = "loop" /\ gamma_mode.tag = "Manual" =>
        IF gamma_mode.fullbright
        THEN current(gamma_control) \in {Reported("Gamma").max, gamma_mode.current}
        ELSE current(gamma_control) = gamma_mode.current

\* fullbright was turned off again and gamma went back from the maximum to
\* the stored value
C15_Witness ==
    /\ pc = "loop"
    /\ call.op = "F"
    /\ gamma_mode.tag = "Manual"
    /\ ~gamma_mode.fullbright
    /\ gamma_mode.current < Reported("Gamma").max
    /\ current(gamma_control) = gamma_mode.current
    /\ writes["Gamma"] = 1

\* C19 as claimed: in every reachable state of the loop whose mode is
\* Manual with fullbright on, the cached gamma equals the gamma maximum and
\* the cached brightness equals the brightness maximum, also after Up and
\* Down presses made while fullbright is on.  (Stated of the runs in which
\* the device accepts every write.)
C19_FullbrightAtMaxima ==
    pc = "loop" /\ failures = 0 /\ gamma_mode.tag = "Manual" /\ gamma_mode.fullbright =>
        /\ current(gamma_control) = Reported("Gamma").max
        /\ current(brightness_control) = Reported("Brightness").max

\* The sum of the last n values of a sequence, the missing ones counting as 0
RECURSIVE SumOfLast(_, _)
SumOfLast(values, n) ==
    IF n = 0 \/ values = <<>> THEN 0
    ELSE values[Len(values)] + SumOfLast(SubSeq(values, 1, Len(values) - 1), n - 1)

\* The capacity of the averager
Capacity == Cardinality(DOMAIN averager.window)

\* C13: on an Averager of capacity N starting from new(), every add
\* returns the sum of the last N values added divided by N; before N
\* values have been added the missing values count as zeros and the divisor
\* is still N.
C13_AddReturnsMeanOfLastN ==
    call.op = "add" =>
        returned = <<Quotient(SumOfLast(added, Capacity), Capacity)>>

\* the window wrapped round: more values than the capacity went in, and the
\* oldest, which was not zero, no longer counts
C13_Witness ==
    /\ call.op = "add"
    /\ Capacity > 1
    /\ Len(added) > Capacity + 1
    /\ added[1] = 2
    /\ added[Len(added)] = 1
    /\ returned[1].sum < SumOfLast(added, Len(added))

\* q is the whole part of n / d
WholePart(q, n, d) == q * d <= n /\ n < (q + 1) * d

\* C14: on a window of size (w, h) and for the aspect a = W / H of a camera
\* of resolution W x H, set_closest_aspect
\* keeps w and asks for the height floor(w / a) if h * a > w, and otherwise
\* keeps h and asks for the width floor(h * a); the size it computes
\* exceeds the window in neither dimension; it returns false, and issues
\* no resize, exactly when that size is the window's, and true otherwise.
\* 800x450 at 16:9 is left alone and 800x500 at 16:9 becomes 800x450.
C14_FitsConstrainingDimension ==
    call.op = "set_closest_aspect" =>
        LET w == call.prev[1]
            h == call.prev[2]
            W == canvas.resolution[1]
            H == canvas.resolution[2]
            r == returned[1]
            fitted == IF r.changed THEN r.request[1] ELSE call.prev
        IN  /\ h * W > w * H  => fitted[1] = w /\ WholePart(fitted[2], w * H, W)
            /\ h * W <= w * H => fitted[2] = h /\ WholePart(fitted[1], h * W, H)
            /\ fitted[1] <= w /\ fitted[2] <= h
            /\ r.changed <=> fitted # call.prev
            /\ r.changed <=> r.request # <<>>
            /\ canvas.size \in {call.prev, fitted}
            /\ (call.prev = <<800, 450>> /\ W = 16 /\ H = 9) => ~r.changed
            /\ (call.prev = <<800, 500>> /\ W = 16 /\ H = 9) =>
                   r.changed /\ fitted = <<800, 450>>

\* C20 as claimed: the size one application of set_closest_aspect produces
\* is a fixed point: applied to the window that took that size,
\* set_closest_aspect reports no change.
C20_FitIsFixedPoint ==
    [][(/\ call.op = "set_closest_aspect"
        /\ returned[1].changed
        /\ canvas.size = returned[1].request[1]
        /\ call'.op = "set_closest_aspect")
       => ~returned'[1].changed]_vars

\* A step that runs the loop body, and one whose frame is not shown
IterationStep == call'.op \in {"frame", "no frame"}

SkippedStep == call'.op = "no frame"

\* C12: when the capture or the decode of an iteration fails, the rest of
\* the iteration is skipped and the loop goes on: the frame step changes
\* neither gamma nor brightness, nothing is blitted, the averager and the
\* title countdown are not updated, the mode is unchanged and the process
\* does not stop; the next iteration captures again.
C12_FailedFrameSkipsTheRest ==
    [][SkippedStep =>
        /\ UNCHANGED <<gamma_control, brightness_control, camera, gamma_mode>>
        /\ writes' = NoWrites
        /\ shown'.blits = shown.blits
        /\ shown'.titled = shown.titled
        /\ UNCHANGED <<averager, title_delay>>
        /\ pc' = "loop"
        /\ events' = 0 =>
               ENABLED (\E frametime \in FrameTimes :
                           Iteration(TRUE, TRUE, target_brightness, TRUE, frametime, 0))
      ]_vars

\* in Auto, with frames shown before and the countdown under way, an
\* iteration was skipped
C12_Witness ==
    /\ call.op = "no frame"
    /\ gamma_mode = Auto
    /\ shown.blits = 1
    /\ shown.skipped
    /\ title_delay \in 2..9
    /\ averager.index > 0

\* A step that handles a quit event
QuitStep == call'.op = "Quit"

\* C17 as claimed: a quit event does not interrupt the iteration in which
\* it is polled: the events after it in the same poll are still handled
\* and the frame of that iteration is still captured and blitted before
\* the loop is left.
C17_QuitCompletesIteration ==
    [][QuitStep => events' = 0 /\ shown'.blits # shown.blits]_vars

\* C17 as amended: a quit event ends the loop at once: the events after
\* it in the same poll stay unhandled, no frame of that iteration is
\* captured, measured or blitted, the title, the averager and the window
\* are left as they are; the two controls are reset and nothing happens
\* after that.
C17_QuitLeavesAtOnce ==
    [][/\ QuitStep =>
            /\ pc' = "exited"
            /\ events' = events - 1
            /\ UNCHANGED <<shown, averager, title_delay, canvas, resized, gamma_mode>>
            /\ current(gamma_control)' = Reported("Gamma").default
            /\ current(brightness_control)' = Reported("Brightness").default
       /\ pc # "exited"
      ]_vars

\* the loop was left in Auto with an event still in the pump
C17_Witness ==
    /\ pc = "exited"
    /\ call.op = "Quit"
    /\ events > 0
    /\ gamma_mode = Auto
    /\ shown.blits = 1

\* A step that handles a key press
AnyKeyStep == call'.op \in {"G", "F", "Up", "Down", "key"}

\* A step that sets the title
TitleStep == IterationStep /\ shown'.blits # shown.blits /\ shown'.frames = 0

\* C18 as claimed: the title is set every 10 iterations, and in the same
\* iteration after any key press, which puts the countdown to 0: the
\* iteration that follows a key press sets the title; between two
\* settings of the title with no key press exactly 10 iterations pass;
\* the countdown is within 0..10 at the start of an iteration.
C18_TitleEveryTenIterations ==
    [][/\ AnyKeyStep => title_delay' = 0
       /\ shown.keyed /\ IterationStep => TitleStep
       /\ TitleStep /\ shown.titled /\ ~shown.keyed =>
            shown.frames + 1 = 10 /\ ~shown.skipped
       /\ title_delay \in 0..10
      ]_vars

\* C18 as amended: the title is set on every 10th frame that is shown, and
\* on the first frame shown after a key press; an iteration whose capture
\* or decode fails neither counts nor sets the title, so the setting is
\* put off past it.  The countdown is within 0..10 at the start of an
\* iteration.
C18_TitleEveryTenFrames ==
    [][/\ AnyKeyStep => title_delay' = 0
       /\ shown.keyed /\ call'.op = "frame" => TitleStep
       /\ SkippedStep => ~TitleStep /\ title_delay' = title_delay
       /\ TitleStep /\ shown.titled /\ ~shown.keyed => shown.frames + 1 = 10
       /\ call'.op = "frame" /\ shown.titled /\ ~shown.keyed /\ shown.frames + 1 < 10 =>
            ~TitleStep
       /\ title_delay \in 0..10
      ]_vars

\* nine frames were shown and an iteration was skipped since the title was
\* set, with no key pressed: the next frame shown sets the title
C18_Witness ==
    /\ pc = "loop"
    /\ call.op = "frame"
    /\ shown.titled
    /\ shown.frames = 9
    /\ shown.skipped
    /\ ~shown.keyed
    /\ title_delay = 1

\* The last step ran the loop body, and the window did not take the size
\* its resize handling asked for
RefusedResize ==
    /\ call.op \in {"frame", "no frame"}
    /\ returned # <<>>
    /\ returned[1].changed
    /\ canvas.size # returned[1].request[1]

\* One size is within the other and is not the same
Shrunk(size, old) == size[1] <= old[1] /\ size[2] <= old[2] /\ size # old

\* C16: a SizeChanged event sets the flag; while it is set, every
\* iteration applies set_closest_aspect once, before the capture and also
\* when the capture fails, and clears the flag when it reports no change;
\* every application that reports a change and is applied shrinks the
\* window.  The flag is cleared after finitely many iterations unless
\* resize events keep arriving, requested sizes keep being refused, or the
\* loop is left.
C16_ResizeSettles ==
    /\ [][/\ call'.op = "SizeChanged" => resized'
          /\ IterationStep /\ resized =>
               /\ returned' = <<set_closest_aspect(canvas.size,
                                    canvas.aspect)>>
               /\ resized' = returned'[1].changed
               /\ ~returned'[1].changed => canvas' = canvas
               /\ returned'[1].changed =>
                      \/ canvas' = canvas
                      \/ /\ canvas'.size = returned'[1].request[1]
                         /\ Shrunk(canvas'.size, canvas.size)
          /\ IterationStep /\ ~resized => ~resized' /\ canvas' = canvas
         ]_vars
    /\ \/ []<>(~resized)
       \/ []<>(call.op = "SizeChanged")
       \/ []<>RefusedResize
       \/ <>(pc = "exited")

\* the flag was cleared in an iteration whose capture failed, after the
\* window had shrunk to the camera's aspect
C16_Witness ==
    /\ call.op = "no frame"
    /\ returned = <<[changed |-> FALSE, request |-> <<>>]>>
    /\ ~resized
    /\ canvas.size = canvas.resolution
    /\ shown.blits = 1

\* Whether a lightness is inside the dead-band
InBand(lightness) ==
    /\ lightness >= target_brightness - brightness_range
    /\ lightness <= target_brightness + brightness_range

\* The move, -1, 0 or 1, that a frame of the scene makes at gamma g
Heading(g) ==
    current(AutoStep([gamma_control EXCEPT !.current = g], scene[g]).self) - g

\* The cached gamma, and the lightness the scene has at it
Gamma == current(gamma_control)

Lit == scene[Gamma]

\* C11 as claimed: in Auto, in front of a static scene whose lightness is
\* a non-decreasing function of gamma, with no user input and from any
\* gamma: every frame shown moves gamma by one, dark frames up and bright
\* frames down, until the lightness is inside the dead-band; gamma never
\* turns back; and once the lightness is inside the band gamma no longer
\* changes.
C11_StaticSceneConverges ==
    [][/\ call'.op = "frame" /\ Lit < target_brightness - brightness_range =>
            Gamma' = Gamma + 1
       /\ call'.op = "frame" /\ Lit > target_brightness + brightness_range =>
            Gamma' = Gamma - 1
       /\ Gamma' > Gamma => Heading(Gamma') >= 0
       /\ Gamma' < Gamma => Heading(Gamma') <= 0
       /\ InBand(Lit) => Gamma' = Gamma
      ]_vars

\* C11 as amended: every frame shown moves gamma by one toward the band,
\* except at the end of the range it would leave, where gamma stays put
\* with the lightness outside the band; gamma turns back only between two
\* neighbouring values of which the lower is too dark and the upper too
\* bright, and there it alternates between the two; once the lightness is
\* inside the band gamma no longer changes; a failed frame moves nothing.
C11_StaticSceneSteps ==
    [][/\ call'.op = "frame" /\ Lit < target_brightness - brightness_range =>
            Gamma' = (IF Gamma = Reported("Gamma").max THEN Gamma ELSE Gamma + 1)
       /\ call'.op = "frame" /\ Lit > target_brightness + brightness_range =>
            Gamma' = (IF Gamma = Reported("Gamma").min THEN Gamma ELSE Gamma - 1)
       /\ Gamma' > Gamma /\ Heading(Gamma') < 0 =>
            /\ scene[Gamma] < target_brightness - brightness_range
            /\ scene[Gamma'] > target_brightness + brightness_range
            /\ Heading(Gamma) = 1 /\ Heading(Gamma') = 0 - 1
       /\ Gamma' < Gamma /\ Heading(Gamma') > 0 =>
            /\ scene[Gamma'] < target_brightness - brightness_range
            /\ scene[Gamma] > target_brightness + brightness_range
            /\ Heading(Gamma') = 1 /\ Heading(Gamma) = 0 - 1
       /\ InBand(Lit) => Gamma' = Gamma
       /\ call'.op = "no frame" => Gamma' = Gamma
       /\ camera'["Gamma"].value = Gamma'
      ]_vars

\* a dark frame has just moved gamma up to a value at which the scene is
\* inside the band
C11_Witness ==
    /\ call.op = "frame"
    /\ gamma_mode = Auto
    /\ scene # <<>>
    /\ writes["Gamma"] = 1
    /\ InBand(scene[Gamma])
    /\ scene[Gamma - 1] < target_brightness - brightness_range
    /\ Gamma = Reported("Gamma").max

====
